---- MODULE Spec2Model ----
(***************************************************************************)
(* Model of the labelbox-python excerpt: Polygon geometry                  *)
(* (data/annotation_types/geometry/polygon.py), the ModelRun registration  *)
(* polling loop (schema/model_run.py) and the Roles cache and lookup       *)
(* (schema/role.py).                                                       *)
(***************************************************************************)
EXTENDS Integers, Sequences, FiniteSets, TLC

\* ------------------------------------------------------------------ bounds
MaxCoord == 1
MaxPoints == 4
MaxIds == 2
MaxTimeout == 7
MaxSleep == 3
MaxNameLen == 2
MaxRoles == 1
NumThreads == 2

\* --------------------------------------------------------------- constants
DefaultSleepTime == 5

VARIABLES
    \* Polygon
    arg,          \* the sequence handed to Polygon(points=...)
    polyStatus,   \* "new" | "valid" | "ValidationError"
    points,       \* Polygon.points of the constructed object (<<>> if none)
    ring,         \* the ring last returned by Polygon.geometry (<<>> if none)
    \* ModelRun
    method,          \* the entry point called
    ids,             \* label_ids / data_row_ids
    budget,          \* timeout_seconds as passed by the caller
    timeout_seconds, \* the local timeout_seconds of _wait_until_done
    sleep_time,      \* sleep_time of _wait_until_done
    pc,              \* "call" | "poll" | "sleep" | "done"
    task_id,         \* res[mutation_name] of the create-task mutation
    pollLog,         \* the results status_fn() returned, in order
    sleeps,          \* number of time.sleep calls made
    outcome,         \* how the call ended: [kind |-> "none"] while running
    \* Roles
    server,        \* the role list the server answers the roles query with
    cached,        \* _get_roles.roles: <<>> while the attribute is not set
    queryCount,    \* number of client.execute(query_str) calls made
    lastFetch,     \* what _get_roles did in the last Roles(client): "none" before any,
                   \* then "executed" (ran the query) or "cached"
    roles,         \* the Roles object constructed last
    lookup,        \* what roles[name] gave for each name, once looked up
    \* threads inside _get_roles
    tpc,           \* position of each thread
    tsaw,          \* whether the thread found the attribute missing
    tres,          \* the thread's local res
    tret,          \* what _get_roles returned to the thread
    writes         \* the threads that assigned _get_roles.roles, in order

polyVars == <<arg, polyStatus, points, ring>>
runVars == <<method, ids, budget, timeout_seconds, sleep_time, pc, task_id,
             pollLog, sleeps, outcome>>
roleVars == <<server, cached, queryCount, lastFetch, roles, lookup>>
threadVars == <<tpc, tsaw, tres, tret, writes>>
vars == <<arg, polyStatus, points, ring,
          method, ids, budget, timeout_seconds, sleep_time, pc, task_id,
          pollLog, sleeps, outcome,
          server, cached, queryCount, lastFetch, roles, lookup,
          tpc, tsaw, tres, tret, writes>>

\* All sequences over S of length 0..n
RECURSIVE SeqUpTo(_, _)
SeqUpTo(S, n) ==
    IF n = 0 THEN {<<>>}
    ELSE LET shorter == SeqUpTo(S, n - 1)
         IN  shorter \cup {Append(s, x) : s \in {t \in shorter : Len(t) = n - 1}, x \in S}

\* The ModelRun part at rest (used by the specifications of the other parts)
RunIdle ==
    /\ method = "none"
    /\ ids = <<>>
    /\ budget = 0
    /\ timeout_seconds = 0
    /\ sleep_time = 0
    /\ pc = "done"
    /\ task_id = "none"
    /\ pollLog = <<>>
    /\ sleeps = 0
    /\ outcome = [kind |-> "none"]

Threads == 1..NumThreads

NoResponse == [obj |-> 0, roles |-> <<>>]

NoRoles == [client |-> "none", valid_roles |-> {}, attrs |-> <<>>]

NoLookup == [done |-> FALSE, results |-> <<>>]

\* The Roles part at rest
RolesIdle ==
    /\ server = <<>>
    /\ cached = <<>>
    /\ queryCount = 0
    /\ lastFetch = "none"
    /\ roles = NoRoles
    /\ lookup = NoLookup

\* No thread inside _get_roles
ThreadsIdle ==
    /\ tpc = [t \in Threads |-> "done"]
    /\ tsaw = [t \in Threads |-> FALSE]
    /\ tres = [t \in Threads |-> NoResponse]
    /\ tret = [t \in Threads |-> NoResponse]
    /\ writes = <<>>

\* The Polygon part at rest
PolyIdle ==
    /\ arg = <<>>
    /\ polyStatus = "new"
    /\ points = <<>>
    /\ ring = <<>>

\* ---------------------------------------------------------------- Polygon
\* Point: an (x, y) coordinate pair, compared by value
Point == [x : 0..MaxCoord, y : 0..MaxCoord]

\* mutant: the count check off by one (len(points) < 2)
is_geom_valid_off_by_one(pts) ==
    IF Len(pts) < 2
    THEN [ok |-> FALSE, points |-> <<>>]
    ELSE [ok |-> TRUE, points |-> pts]

\* mutant: the validator accepts whatever it is given
is_geom_valid_unchecked(pts) ==
    [ok |-> TRUE, points |-> pts]

\* @validator('points'): fewer than 3 points is a validation error
is_geom_valid(pts) ==
    IF Len(pts) < 3
    THEN [ok |-> FALSE, points |-> <<>>]
    ELSE [ok |-> TRUE, points |-> pts]

\* mutant: the ring is exported without being closed
geometry_unclosed(pts) ==
    [points |-> pts,
     ring   |-> [i \in 1..Len(pts) |-> <<pts[i].x, pts[i].y>>]]

\* Polygon.geometry: close the stored ring, then export [x, y] pairs
geometry(pts) ==
    LET closed == IF pts[1] # pts[Len(pts)] THEN Append(pts, pts[1]) ELSE pts
    IN  [points |-> closed,
         ring   |-> [i \in 1..Len(closed) |-> <<closed[i].x, closed[i].y>>]]

PolyInit ==
    /\ RunIdle
    /\ RolesIdle
    /\ ThreadsIdle
    /\ arg \in SeqUpTo(Point, MaxPoints)
    /\ polyStatus = "new"
    /\ points = <<>>
    /\ ring = <<>>

\* Polygon(points=arg): pydantic runs the validator, then stores the field
Construct ==
    /\ polyStatus = "new"
    /\ LET v == is_geom_valid(arg)
       IN  /\ polyStatus' = IF v.ok THEN "valid" ELSE "ValidationError"
           /\ points' = v.points
    /\ UNCHANGED <<arg, ring>>
    /\ UNCHANGED <<runVars, roleVars, threadVars>>

\* polygon.geometry on an existing Polygon
Geometry ==
    /\ polyStatus = "valid"
    /\ LET g == geometry(points)
       IN  /\ points' = g.points
           /\ ring' = g.ring
    /\ UNCHANGED <<arg, polyStatus>>
    /\ UNCHANGED <<runVars, roleVars, threadVars>>

PolyNext == Construct \/ Geometry

SpecPolygon == PolyInit /\ [][PolyNext]_vars

\* --------------------------------------------------------------- ModelRun
Ids == {"id1"}
TaskIds == {"task1", "task2"}
ErrorMessages == {"err1", "err2"}

\* What a status query can answer: {status errorMessage}
StatusResults ==
    {[status |-> "COMPLETE", errorMessage |-> "null"]}
    \cup [status : {"FAILED"}, errorMessage : ErrorMessages]
    \cup [status : {"PENDING", "IN_PROGRESS"}, errorMessage : {"null"}]

\* mutant: the budget is tested before the status
wait_until_done_step_budget_first(res, remaining, sleep) ==
    LET left == remaining - sleep
    IN  IF res.status = "COMPLETE"
        THEN [kind |-> "return", value |-> "True"]
        ELSE IF left <= 0
        THEN [kind |-> "TimeoutError", seconds |-> left]
        ELSE IF res.status = "FAILED"
        THEN [kind |-> "Exception", message |-> res.errorMessage]
        ELSE [kind |-> "sleep", remaining |-> left]

\* mutant: the budget test is strict (timeout_seconds < 0)
wait_until_done_step_strict(res, remaining, sleep) ==
    IF res.status = "COMPLETE"
    THEN [kind |-> "return", value |-> "True"]
    ELSE IF res.status = "FAILED"
    THEN [kind |-> "Exception", message |-> res.errorMessage]
    ELSE LET left == remaining - sleep
         IN  IF left < 0
             THEN [kind |-> "TimeoutError", seconds |-> left]
             ELSE [kind |-> "sleep", remaining |-> left]

\* One iteration of the while-loop of _wait_until_done after res = status_fn()
wait_until_done_step(res, remaining, sleep) ==
    IF res.status = "COMPLETE"
    THEN [kind |-> "return", value |-> "True"]
    ELSE IF res.status = "FAILED"
    THEN [kind |-> "Exception", message |-> res.errorMessage]
    ELSE LET left == remaining - sleep
         IN  IF left <= 0
             THEN [kind |-> "TimeoutError", seconds |-> left]
             ELSE [kind |-> "sleep", remaining |-> left]

\* len(ids) < 1 check of upsert_labels / upsert_data_rows
upsert_check(theIds) ==
    IF Len(theIds) < 1 THEN "ValueError" ELSE "ok"

RunInit ==
    /\ PolyIdle
    /\ RolesIdle
    /\ ThreadsIdle
    /\ method \in {"upsert_labels", "upsert_data_rows", "_wait_until_done"}
    /\ ids \in IF method = "_wait_until_done" THEN {<<>>} ELSE SeqUpTo(Ids, MaxIds)
    /\ budget \in 0..MaxTimeout
    /\ timeout_seconds = budget
    /\ sleep_time \in IF method = "_wait_until_done" THEN 1..MaxSleep
                                                     ELSE {DefaultSleepTime}
    /\ pc = "call"
    /\ task_id = "none"
    /\ pollLog = <<>>
    /\ sleeps = 0
    /\ outcome = [kind |-> "none"]

\* upsert_labels / upsert_data_rows up to the call of _wait_until_done
Upsert ==
    /\ pc = "call"
    /\ method \in {"upsert_labels", "upsert_data_rows"}
    /\ IF upsert_check(ids) = "ValueError"
       THEN /\ outcome' = [kind |-> "ValueError"]
            /\ pc' = "done"
            /\ UNCHANGED task_id
       ELSE /\ \E t \in TaskIds : task_id' = t
            /\ pc' = "poll"
            /\ UNCHANGED outcome
    /\ UNCHANGED <<method, ids, budget, timeout_seconds, sleep_time, pollLog, sleeps>>
    /\ UNCHANGED <<polyVars, roleVars, threadVars>>

\* _wait_until_done called directly with a status function
WaitCall ==
    /\ pc = "call"
    /\ method = "_wait_until_done"
    /\ pc' = "poll"
    /\ UNCHANGED <<method, ids, budget, timeout_seconds, sleep_time, task_id,
                   pollLog, sleeps, outcome>>
    /\ UNCHANGED <<polyVars, roleVars, threadVars>>

\* res = status_fn() and the branches up to return, raise or time.sleep
Poll ==
    /\ pc = "poll"
    /\ \E res \in StatusResults :
         LET step == wait_until_done_step(res, timeout_seconds, sleep_time)
         IN  /\ pollLog' = Append(pollLog, res)
             /\ IF step.kind = "sleep"
                THEN /\ timeout_seconds' = step.remaining
                     /\ pc' = "sleep"
                     /\ UNCHANGED outcome
                ELSE /\ outcome' = step
                     /\ pc' = "done"
                     /\ timeout_seconds' =
                            IF step.kind = "TimeoutError" THEN step.seconds
                                                          ELSE timeout_seconds
    /\ UNCHANGED <<method, ids, budget, sleep_time, task_id, sleeps>>
    /\ UNCHANGED <<polyVars, roleVars, threadVars>>

\* time.sleep(sleep_time)
Sleep ==
    /\ pc = "sleep"
    /\ sleeps' = sleeps + 1
    /\ pc' = "poll"
    /\ UNCHANGED <<method, ids, budget, timeout_seconds, sleep_time, task_id,
                   pollLog, outcome>>
    /\ UNCHANGED <<polyVars, roleVars, threadVars>>

RunNext == Upsert \/ WaitCall \/ Poll \/ Sleep

SpecModelRun == RunInit /\ [][RunNext]_vars

\* the polling thread is scheduled until the call returns or raises
FairSpecModelRun == SpecModelRun /\ WF_vars(RunNext)

\* ------------------------------------------------------------------ Roles
Clients == {"client1", "client2"}

\* Characters of role names: a cased letter in both cases, space, underscore
Alphabet == {"a", "A", " ", "_"}

Names == SeqUpTo(Alphabet, MaxNameLen)

\* what the roles query can answer: { roles { id name } }
ServerResponses ==
    {[i \in 1..Len(ns) |-> [id |-> i, name |-> ns[i]]] : ns \in SeqUpTo(Names, MaxRoles)}

\* str.upper()
upper(s) == [i \in 1..Len(s) |-> IF s[i] = "a" THEN "A" ELSE s[i]]

\* str.replace(' ', '_')
replace_space(s) == [i \in 1..Len(s) |-> IF s[i] = " " THEN "_" ELSE s[i]]

\* Roles.__init__: result['name'].upper().replace(' ', '_')
init_name(s) == replace_space(upper(s))

\* mutant: the lookup name keeps its case
getitem_name_cased(s) == replace_space(s)

\* Roles.__getitem__: name.replace(' ', '_').upper()
getitem_name(s) == upper(replace_space(s))

\* mutant: the attribute test always finds nothing
has_roles_never(c) == FALSE

\* hasattr(_get_roles, 'roles')
has_roles(c) == Len(c) = 1

\* mutant: an assignment that keeps a value already there
assign_roles_keep_first(c, res) == IF Len(c) = 1 THEN c ELSE <<res>>

\* _get_roles.roles = res
assign_roles(c, res) == <<res>>

\* Roles.__init__ on the answer res of _get_roles: the loop writes each
\* normalised name back into the result, sets the attribute and adds the
\* name to valid_roles
Roles_init(client, res) ==
    LET n == Len(res.roles)
        named == [i \in 1..n |-> [id   |-> res.roles[i].id,
                                   name |-> init_name(res.roles[i].name)]]
        valid == {named[i].name : i \in 1..n}
        lastOf(nm) == CHOOSE i \in 1..n :
                         /\ named[i].name = nm
                         /\ \A j \in 1..n : named[j].name = nm => j <= i
    IN  [object |-> [client      |-> client,
                     valid_roles |-> valid,
                     attrs       |-> [nm \in valid |->
                                        [client |-> client,
                                         id     |-> named[lastOf(nm)].id,
                                         name   |-> nm]]],
         res    |-> [obj |-> res.obj, roles |-> named]]

\* Roles.__getitem__
Roles_getitem(r, name) ==
    LET nm == getitem_name(name)
    IN  IF nm \notin r.valid_roles
        THEN [kind |-> "ValueError"]
        ELSE [kind |-> "Role", role |-> r.attrs[nm]]

RolesInit ==
    /\ PolyIdle
    /\ RunIdle
    /\ ThreadsIdle
    /\ server \in ServerResponses
    /\ cached = <<>>
    /\ queryCount = 0
    /\ lastFetch = "none"
    /\ roles = NoRoles
    /\ lookup = NoLookup

\* Roles(client): _get_roles(client), then the loop of __init__
ConstructRoles ==
    /\ \E client \in Clients :
         LET fetch == ~has_roles(cached)
             res   == IF fetch THEN [obj |-> queryCount + 1, roles |-> server]
                               ELSE cached[1]
             built == Roles_init(client, res)
         IN  /\ queryCount' = IF fetch THEN queryCount + 1 ELSE queryCount
             /\ lastFetch' = IF fetch THEN "executed" ELSE "cached"
             /\ cached' = <<built.res>>
             /\ roles' = built.object
    /\ lookup' = NoLookup
    /\ UNCHANGED server
    /\ UNCHANGED <<polyVars, runVars, threadVars>>

\* roles[name], for every name, on the Roles object constructed last
Lookup ==
    /\ lastFetch # "none"
    /\ lookup' = [done    |-> TRUE,
                  results |-> [name \in Names |-> Roles_getitem(roles, name)]]
    /\ UNCHANGED <<server, cached, queryCount, lastFetch, roles>>
    /\ UNCHANGED <<polyVars, runVars, threadVars>>

RolesNext == ConstructRoles \/ Lookup

SpecRoles == RolesInit /\ [][RolesNext]_vars

\* ------------------------------------------- _get_roles called by threads
\* _get_roles passes the answer on unread: answers of one role are enough
OneRoleResponses == {<<[id |-> 1, name |-> <<c>>]>> : c \in Alphabet}

ThreadsInit ==
    /\ PolyIdle
    /\ RunIdle
    /\ server \in OneRoleResponses
    /\ cached = <<>>
    /\ queryCount = 0
    /\ lastFetch = "none"
    /\ roles = NoRoles
    /\ lookup = NoLookup
    /\ tpc = [t \in Threads |-> "check"]
    /\ tsaw = [t \in Threads |-> FALSE]
    /\ tres = [t \in Threads |-> NoResponse]
    /\ tret = [t \in Threads |-> NoResponse]
    /\ writes = <<>>

\* if not hasattr(_get_roles, 'roles')
Check(t) ==
    /\ tpc[t] = "check"
    /\ tsaw' = [tsaw EXCEPT ![t] = ~has_roles(cached)]
    /\ tpc' = [tpc EXCEPT ![t] = IF has_roles(cached) THEN "return" ELSE "execute"]
    /\ UNCHANGED <<tres, tret, writes>>
    /\ UNCHANGED <<polyVars, runVars, roleVars>>

\* res = client.execute(query_str)
Execute(t) ==
    /\ tpc[t] = "execute"
    /\ queryCount' = queryCount + 1
    /\ tres' = [tres EXCEPT ![t] = [obj |-> queryCount + 1, roles |-> server]]
    /\ tpc' = [tpc EXCEPT ![t] = "assign"]
    /\ UNCHANGED <<tsaw, tret, writes>>
    /\ UNCHANGED <<server, cached, lastFetch, roles, lookup>>
    /\ UNCHANGED <<polyVars, runVars>>

\* _get_roles.roles = res
Assign(t) ==
    /\ tpc[t] = "assign"
    /\ cached' = assign_roles(cached, tres[t])
    /\ writes' = Append(writes, t)
    /\ tpc' = [tpc EXCEPT ![t] = "return"]
    /\ UNCHANGED <<tsaw, tres, tret>>
    /\ UNCHANGED <<server, queryCount, lastFetch, roles, lookup>>
    /\ UNCHANGED <<polyVars, runVars>>

\* return _get_roles.roles
Return(t) ==
    /\ tpc[t] = "return"
    /\ tret' = [tret EXCEPT ![t] = cached[1]]
    /\ tpc' = [tpc EXCEPT ![t] = "done"]
    /\ UNCHANGED <<tsaw, tres, writes>>
    /\ UNCHANGED <<polyVars, runVars, roleVars>>

ThreadsNext == \E t \in Threads : Check(t) \/ Execute(t) \/ Assign(t) \/ Return(t)

SpecThreads == ThreadsInit /\ [][ThreadsNext]_vars

\* ======================================================== Polygon claims
PointSet(pts) == {pts[i] : i \in 1..Len(pts)}

\* C1: after a call of the geometry accessor on a Polygon (which holds at
\* least 3 points) the first and last coordinate pair of the returned ring
\* are equal and the first and last stored points are equal, whether or not
\* the ring was closed before the call.
C1_GeometryClosesRing ==
    ring # <<>> =>
        /\ Len(points) >= 3
        /\ ring[1] = ring[Len(ring)]
        /\ points[1] = points[Len(points)]
        /\ Len(ring) = Len(points)
        /\ points = IF arg[1] = arg[Len(arg)] THEN arg ELSE Append(arg, arg[1])

\* C1 witness: geometry was called on a Polygon whose ring was open
C1_Witness ==
    /\ ring # <<>>
    /\ arg[1] # arg[Len(arg)]
    /\ Len(points) = Len(arg) + 1

\* C2: construction from 0, 1 or 2 points fails with a validation error and
\* yields no Polygon; construction from 3 or more points passes the count
\* check.
C2_ConstructionCountCheck ==
    polyStatus # "new" =>
        /\ Len(arg) <= 2 => (polyStatus = "ValidationError" /\ points = <<>>)
        /\ Len(arg) >= 3 => polyStatus = "valid"

\* C2 witness: a construction from 2 points was rejected
C2_Witness ==
    /\ polyStatus = "ValidationError"
    /\ Len(arg) = 2

\* C3 as stated: every Polygon that exists holds at least 3 pairwise
\* different points.
C3_ThreeDistinctPoints ==
    polyStatus = "valid" => Cardinality(PointSet(points)) >= 3

\* C3 amended: every Polygon that exists holds at least 3 points (which may
\* coincide), after construction and after any number of geometry calls.
C3_ThreePoints ==
    polyStatus = "valid" => Len(points) >= 3

\* C3 witness: an existing Polygon, geometry called, all its points equal
C3_Witness ==
    /\ polyStatus = "valid"
    /\ ring # <<>>
    /\ Cardinality(PointSet(points)) = 1

\* ======================================================= ModelRun claims
Last(s) == s[Len(s)]

Max(a, b) == IF a >= b THEN a ELSE b

\* ceil(a / b) for b > 0
Ceil(a, b) == (a + b - 1) \div b

NonTerminalOnly ==
    \A i \in 1..Len(pollLog) : pollLog[i].status \notin {"COMPLETE", "FAILED"}

\* C4: a poll that answers FAILED makes the call raise the failure carrying
\* that poll's errorMessage, and after it there is no further poll and no
\* sleep.
C4_FailedRaisesWithMessage ==
    [][ /\ (pc = "poll" /\ pollLog' # pollLog /\ Last(pollLog').status = "FAILED")
            => /\ outcome' = [kind |-> "Exception",
                              message |-> Last(pollLog').errorMessage]
               /\ pc' = "done"
               /\ sleeps' = sleeps
        /\ outcome.kind = "Exception"
            => (pollLog' = pollLog /\ sleeps' = sleeps) ]_vars

\* C4 witness: the first poll answered FAILED and the call raised
C4_Witness ==
    /\ outcome.kind = "Exception"
    /\ Len(pollLog) = 1
    /\ sleeps = 0

\* C5: with a status function that never answers COMPLETE or FAILED and a
\* positive sleep_time the call terminates, raising TimeoutError at the
\* first poll k with timeout_seconds - k*sleep_time <= 0, that is after
\* exactly max(1, ceil(timeout_seconds / sleep_time)) polls, and it never
\* returns True.
C5_TimeoutAfterExactPolls ==
    /\ <>(pc = "done")
    /\ [](NonTerminalOnly =>
            /\ outcome.kind \notin {"return", "Exception"}
            /\ Len(pollLog) <= Max(1, Ceil(budget, sleep_time))
            /\ sleeps <= Len(pollLog)
            /\ (pc = "done" /\ Len(pollLog) >= 1) =>
                    /\ outcome.kind = "TimeoutError"
                    /\ Len(pollLog) = Max(1, Ceil(budget, sleep_time))
                    /\ budget - Len(pollLog) * sleep_time <= 0)

\* C5 witness: a timeout after three polls, none of them terminal
C5_Witness ==
    /\ outcome.kind = "TimeoutError"
    /\ NonTerminalOnly
    /\ Len(pollLog) = 3
    /\ sleeps = 2

\* C9: upsert_labels / upsert_data_rows with a non-empty id list whose task
\* reaches COMPLETE within the budget return the id of the created task.
C9_ReturnsTaskId ==
    (method \in {"upsert_labels", "upsert_data_rows"} /\ outcome.kind = "return")
        => outcome.value = task_id

\* C10: the seconds named in the TimeoutError message equal the
\* timeout_seconds budget the caller passed.
C10_MessageNamesBudget ==
    (outcome.kind = "TimeoutError" /\ budget > 0) => outcome.seconds = budget

\* ========================================================== Roles claims
\* the normal form of a name: spaces replaced by underscores, upper-cased
NormChar(c) == CASE c = " " -> "_" [] c = "a" -> "A" [] OTHER -> c

NormalForm(s) == [i \in 1..Len(s) |-> NormChar(s[i])]

\* C6: lookup by name is insensitive to case and to space versus underscore:
\* every name gives what its normal form gives (so two names with one normal
\* form give the same Role entry), namely the Role entry of that normal form
\* when the server returned a name with it, and ValueError when the normal
\* form is not in valid_roles.
C6_LookupNormalises ==
    lookup.done =>
        /\ roles.valid_roles = {NormalForm(server[i].name) : i \in 1..Len(server)}
        /\ \A n \in DOMAIN lookup.results :
             LET nf   == NormalForm(n)
                 hits == {i \in 1..Len(server) : NormalForm(server[i].name) = nf}
                 last == CHOOSE i \in hits : \A j \in hits : j <= i
             IN  /\ lookup.results[n] = lookup.results[nf]
                 /\ nf \notin roles.valid_roles
                        => lookup.results[n] = [kind |-> "ValueError"]
                 /\ hits # {}
                        => lookup.results[n] =
                              [kind |-> "Role",
                               role |-> [client |-> roles.client,
                                         id     |-> server[last].id,
                                         name   |-> nf]]

\* C6 witness: two different names, neither of them the name as the server
\* spelt it, were looked up and gave the same Role entry
C6_Witness ==
    /\ lookup.done
    /\ \E n1, n2 \in DOMAIN lookup.results :
         /\ n1 # n2
         /\ lookup.results[n1].kind = "Role"
         /\ lookup.results[n1] = lookup.results[n2]
         /\ \A i \in 1..Len(server) : server[i].name \notin {n1, n2}
    /\ \E n \in DOMAIN lookup.results : lookup.results[n].kind = "ValueError"

\* C7: over a sequential series of Roles constructions the roles query is
\* executed exactly once, by the first construction and not before it; every
\* later construction (by whichever client) and every lookup leaves the
\* cached result as it is and makes no remote call.
C7_FetchedOnce ==
    /\ [](queryCount = IF lastFetch = "none" THEN 0 ELSE 1)
    /\ [](lastFetch = "none" <=> cached = <<>>)
    /\ [][lastFetch # "none" =>
            /\ queryCount' = queryCount
            /\ cached' = cached]_vars

\* C7 witness: a later construction, by another client, served by the cache
C7_Witness ==
    /\ lastFetch = "cached"
    /\ queryCount = 1
    /\ roles.client = "client2"
    /\ roles.valid_roles # {}
    /\ cached[1].obj = 1

\* C8: _get_roles has no guard: the number of queries executed is the number
\* of threads that found the cache empty and went on, and the cache holds the
\* result of the thread that assigned last, so that two threads that both
\* find it empty fetch twice and the later result replaces the earlier one.
C8_UnguardedFetch ==
    /\ queryCount = Cardinality({t \in Threads :
                                   tsaw[t] /\ tpc[t] \in {"assign", "return", "done"}})
    /\ Len(writes) = Cardinality({t \in Threads :
                                   tsaw[t] /\ tpc[t] \in {"return", "done"}})
    /\ writes # <<>> => cached = <<tres[Last(writes)]>>

\* C8 witness: both threads found the cache empty, the query ran twice and
\* the cache holds the second writer's result, not the first's
C8_Witness ==
    /\ \A t \in {1, 2} : tsaw[t] /\ tpc[t] = "done"
    /\ queryCount >= 2
    /\ Len(writes) >= 2
    /\ cached # <<tres[writes[1]]>>

====
